---------------------------- MODULE Spec2Model ----------------------------
(***************************************************************************)
(* Catalog storage-and-mutation engine: the shard store on disk, the       *)
(* FieldManager batch mutation tool (field-manager.ts) and the             *)
(* ProductLoader cache (product-loader.ts).                                *)
(*                                                                         *)
(* A shard file is modelled by the JSON document it holds: an ordered list *)
(* of records, each record an ordered list of <<key, value>> pairs with    *)
(* distinct keys (JSON.parse / JSON.stringify keep insertion order).  All  *)
(* keys and values are strings so that any two can be compared.            *)
(***************************************************************************)
EXTENDS Integers, Sequences, FiniteSets, TLC

\* ------------------------------------------------------------------ bounds
NumShards == 2      \* shard files found by the glob / listed in the manifest
MaxCalls == 3       \* loadAllProducts() calls in one behaviour
MaxResets == 1      \* resetCache() calls in one behaviour
MaxTime == 1        \* clock values 0..MaxTime (backup directory timestamps)
MaxProducts == 3    \* records in products.json
MaxPage == 4        \* page numbers 1..MaxPage
MaxLimit == 2       \* page sizes 1..MaxLimit

ShardIds == 1..NumShards

\* ------------------------------------------------------------ JSON values
Undefined == "undefined"      \* the JavaScript value undefined (never in a file)
NaNValue == "NaN"             \* a non-finite number (never in a file)
NullValue == "null"
FieldNames == {"id", "x", "y"}
DefaultValues == {"1", "2"}
Ids == <<"p1", "p2", "p3", "p4", "p5">>

Corrupt == [ok |-> FALSE, recs |-> <<>>]    \* a file that is not a JSON array
Doc(recs) == [ok |-> TRUE, recs |-> recs]

\* ------------------------------------------------- JavaScript object model
hasOwnProperty(product, k) == \E i \in 1..Len(product) : product[i][1] = k

GetField(product, k) ==
    IF hasOwnProperty(product, k)
    THEN product[CHOOSE i \in 1..Len(product) : product[i][1] = k][2]
    ELSE Undefined

\* { ...product, [k]: v } : an existing key keeps its position, a new key
\* is appended
SpreadAssign(product, k, v) ==
    IF hasOwnProperty(product, k)
    THEN [i \in 1..Len(product) |->
            IF product[i][1] = k THEN <<k, v>> ELSE product[i]]
    ELSE Append(product, <<k, v>>)

\* const { [k]: _, ...rest } = product
RestWithout(product, k) == SelectSeq(product, LAMBDA kv : kv[1] # k)

KeysOf(product) == {product[i][1] : i \in 1..Len(product)}

\* JSON.stringify drops the keys whose value is undefined and writes a
\* non-finite number as null; the text is represented by what JSON.parse
\* gives back for it.
StringifyValue(v) == IF v = NaNValue THEN NullValue ELSE v

StringifyRecord(product) ==
    LET kept == SelectSeq(product, LAMBDA kv : kv[2] # Undefined)
    IN  [i \in 1..Len(kept) |-> <<kept[i][1], StringifyValue(kept[i][2])>>]

Stringify(products) ==
    Doc([i \in 1..Len(products) |-> StringifyRecord(products[i])])

\* ------------------------------------------------------- field operations
Updaters == {"const1", "undef", "nan"}

ApplyUpdater(u, currentValue, product) ==
    CASE u = "const1" -> "1"
      [] u = "undef"  -> Undefined
      [] u = "nan"    -> NaNValue

Op(kind, f, g, v) == [kind |-> kind, f |-> f, g |-> g, v |-> v]

AddOps == {Op("addField", f, "-", v) : f \in FieldNames, v \in DefaultValues}
RenameOps == {Op("renameField", f, g, "-") : f \in FieldNames, g \in FieldNames}
RemoveOps == {Op("removeField", f, "-", "-") : f \in FieldNames}
UpdateOps == {Op("updateField", f, "-", u) : f \in FieldNames, u \in Updaters}
AllOps == AddOps \cup RenameOps \cup RemoveOps \cup UpdateOps

AddFieldMutantOverwrite(product, fieldName, defaultValue) ==
    SpreadAssign(product, fieldName, defaultValue)

AddFieldRecord(product, fieldName, defaultValue) ==
    SpreadAssign(product, fieldName,
                 IF hasOwnProperty(product, fieldName)
                 THEN GetField(product, fieldName)
                 ELSE defaultValue)

RenameFieldMutantKeepOld(product, oldFieldName, newFieldName) ==
    IF hasOwnProperty(product, oldFieldName)
    THEN SpreadAssign(product, newFieldName, GetField(product, oldFieldName))
    ELSE product

RenameFieldMutantKeepNew(product, oldFieldName, newFieldName) ==
    IF hasOwnProperty(product, oldFieldName)
    THEN IF hasOwnProperty(RestWithout(product, oldFieldName), newFieldName)
         THEN RestWithout(product, oldFieldName)
         ELSE Append(RestWithout(product, oldFieldName),
                     <<newFieldName, GetField(product, oldFieldName)>>)
    ELSE product

RenameFieldRecord(product, oldFieldName, newFieldName) ==
    IF hasOwnProperty(product, oldFieldName)
    THEN SpreadAssign(RestWithout(product, oldFieldName), newFieldName,
                      GetField(product, oldFieldName))
    ELSE product

UpdateFieldRecord(product, fieldName, updater) ==
    SpreadAssign(product, fieldName,
                 ApplyUpdater(updater, GetField(product, fieldName), product))

RemoveFieldMutantDropTail(product, fieldName) ==
    IF hasOwnProperty(product, fieldName)
    THEN SubSeq(product, 1, (CHOOSE i \in 1..Len(product) : product[i][1] = fieldName) - 1)
    ELSE product

RemoveFieldRecord(product, fieldName) == RestWithout(product, fieldName)

\* the products.map(...) of the four operations
TransformRecord(op, product) ==
    CASE op.kind = "addField"    -> AddFieldRecord(product, op.f, op.v)
      [] op.kind = "renameField" -> RenameFieldRecord(product, op.f, op.g)
      [] op.kind = "updateField" -> UpdateFieldRecord(product, op.f, op.v)
      [] op.kind = "removeField" -> RemoveFieldRecord(product, op.f)

Reverse(s) == [i \in 1..Len(s) |-> s[Len(s) + 1 - i]]

MapProductsMutantReversed(op, products) ==
    Reverse([i \in 1..Len(products) |-> TransformRecord(op, products[i])])

MapProductsMutantRotate(op, products) ==
    IF products = <<>> THEN <<>>
    ELSE [i \in 1..Len(Tail(products)) |-> TransformRecord(op, Tail(products)[i])]
         \o <<TransformRecord(op, products[1])>>

MapProducts(op, products) ==
    [i \in 1..Len(products) |-> TransformRecord(op, products[i])]

\* what one pass of the forEach body writes for a readable file
UpdatedFile(op, content) == Stringify(MapProducts(op, content.recs))


\* --------------------------------------------------- JavaScript strings
\* A string is the sequence of its characters; CodeUnit gives the UTF-16
\* code unit the relational operators compare by.
Digits == {"0", "1", "2", "3", "4", "5", "6", "7", "8", "9"}

CodeUnit(c) ==
    CASE c = " " -> 32 [] c = "," -> 44 [] c = "-" -> 45
      [] c = "0" -> 48 [] c = "1" -> 49 [] c = "2" -> 50 [] c = "3" -> 51
      [] c = "4" -> 52 [] c = "5" -> 53 [] c = "6" -> 54 [] c = "7" -> 55
      [] c = "8" -> 56 [] c = "9" -> 57
      [] c = "A" -> 65 [] c = "B" -> 66 [] c = "a" -> 97 [] c = "b" -> 98
      [] c = "x" -> 120

LowerChar(c) == CASE c = "A" -> "a" [] c = "B" -> "b" [] OTHER -> c

toLowerCase(str) == [i \in 1..Len(str) |-> LowerChar(str[i])]

includes(str, searchString) ==
    \E i \in 0..(Len(str) - Len(searchString)) :
        SubSeq(str, i + 1, i + Len(searchString)) = searchString

RECURSIVE trimStart(_)
trimStart(str) ==
    IF str # <<>> /\ Head(str) = " " THEN trimStart(Tail(str)) ELSE str

trim(str) == Reverse(trimStart(Reverse(trimStart(str))))

\* a < b for two strings
RECURSIVE StringLess(_, _)
StringLess(a, b) ==
    IF b = <<>> THEN FALSE
    ELSE IF a = <<>> THEN TRUE
    ELSE IF Head(a) = Head(b) THEN StringLess(Tail(a), Tail(b))
    ELSE CodeUnit(Head(a)) < CodeUnit(Head(b))

\* --------------------------------------------------- JavaScript numbers
\* a finite integer, NaN, +Infinity / -Infinity, or undefined (a parameter
\* that was not given)
Num(v) == [k |-> "num", v |-> v]
NaN == [k |-> "nan", v |-> 0]
PlusInfinity == [k |-> "inf", v |-> 1]
UndefinedNumber == [k |-> "undefined", v |-> 0]

\* the string of decimal digits read as a number
RECURSIVE DigitsValue(_)
DigitsValue(ds) ==
    IF ds = <<>> THEN 0
    ELSE 10 * DigitsValue(SubSeq(ds, 1, Len(ds) - 1)) + (CodeUnit(ds[Len(ds)]) - 48)

RECURSIVE LeadingDigits(_)
LeadingDigits(str) ==
    IF str # <<>> /\ Head(str) \in Digits
    THEN <<Head(str)>> \o LeadingDigits(Tail(str))
    ELSE <<>>

\* parseInt(str) / parseFloat(str) of a string without '.', 'e' or "0x":
\* leading blanks, an optional sign, then the longest run of digits
parseInt(str) ==
    LET t == trimStart(str)
        neg == t # <<>> /\ Head(t) = "-"
        ds == LeadingDigits(IF neg THEN Tail(t) ELSE t)
    IN  IF ds = <<>> THEN NaN
        ELSE Num(IF neg THEN 0 - DigitsValue(ds) ELSE DigitsValue(ds))

parseFloat(str) == parseInt(str)

\* Math.min(x, m) for a finite m
MathMin(x, m) ==
    CASE x.k = "nan" -> NaN
      [] x.k = "inf" -> IF x.v > 0 THEN Num(m) ELSE x
      [] OTHER -> IF x.v < m THEN x ELSE Num(m)

\* Math.ceil(total / limit) for an integer total >= 0
CeilDiv(total, limit) ==
    CASE limit.k = "nan" -> NaN
      [] limit.k = "inf" -> Num(0)
      [] limit.v = 0 -> IF total = 0 THEN NaN ELSE PlusInfinity
      [] limit.v > 0 -> Num((total + limit.v - 1) \div limit.v)
      [] OTHER -> Num(0 - (total \div (0 - limit.v)))

Times(x, y) ==
    IF x.k = "num" /\ y.k = "num" THEN Num(x.v * y.v) ELSE NaN

Plus(x, y) ==
    IF x.k = "num" /\ y.k = "num" THEN Num(x.v + y.v) ELSE NaN

\* price >= bound, price <= bound for a finite price
GreaterEq(price, bound) == bound.k = "num" /\ price >= bound.v
LessEq(price, bound) == bound.k = "num" /\ price <= bound.v

\* the relative index Array.prototype.slice makes of an argument
SliceIndex(x, len) ==
    CASE x.k = "nan" -> 0
      [] x.k = "inf" -> IF x.v > 0 THEN len ELSE 0
      [] x.v < 0 -> IF len + x.v > 0 THEN len + x.v ELSE 0
      [] OTHER -> IF x.v < len THEN x.v ELSE len

slice(arr, start, end) ==
    SubSeq(arr, SliceIndex(start, Len(arr)) + 1, SliceIndex(end, Len(arr)))


\* ------------------------------------------------------- catalog records
\* a Product of products.json, with the attributes the query engine and the
\* splitter read
NullName == [null |-> TRUE, str |-> <<>>]
NameEn(str) == [null |-> FALSE, str |-> str]

Product(id, name, nameEn, series, rarityLevel, currentPrice, releaseDate) ==
    [id |-> id, name |-> name, nameEn |-> nameEn, series |-> series,
     rarityLevel |-> rarityLevel, currentPrice |-> currentPrice,
     releaseDate |-> releaseDate]

\* series labels
SeriesAB == <<"A", " ", "b">>
SeriesAdashB == <<"a", "-", "b">>
SeriesB == <<"B">>

\* release dates, 'YYYY-MM-DD'
Date20231231 == <<"2", "0", "2", "3", "-", "1", "2", "-", "3", "1">>
Date20240115 == <<"2", "0", "2", "4", "-", "0", "1", "-", "1", "5">>
Date20240201 == <<"2", "0", "2", "4", "-", "0", "2", "-", "0", "1">>

\* new Date('YYYY-MM-DD').getTime(), in days (the timestamp of a calendar
\* date is a whole number of days of 86 400 000 ms since 1970-01-01)
getTime(date) ==
    LET year == DigitsValue(SubSeq(date, 1, 4))
        month == DigitsValue(SubSeq(date, 6, 7))
        day == DigitsValue(SubSeq(date, 9, 10))
        y == IF month <= 2 THEN year - 1 ELSE year
        era == y \div 400
        yoe == y - era * 400
        mp == IF month > 2 THEN month - 3 ELSE month + 9
        doy == (153 * mp + 2) \div 5 + day - 1
        doe == yoe * 365 + yoe \div 4 - yoe \div 100 + doy
    IN  era * 146097 + doe - 719468

ProductPool ==
    << Product(<<"q", "1">>, <<"A", "b">>, NullName, SeriesAB, "rare", 100, Date20240115),
       Product(<<"q", "2">>, <<"a", "B">>, NameEn(<<"b", " ", "A">>), SeriesAdashB, "hidden", 50, Date20231231),
       Product(<<"q", "3">>, <<"b">>, NameEn(<<"A">>), SeriesAB, "normal", 100, Date20240115),
       Product(<<"q", "4">>, <<"a", " ", "b">>, NameEn(<<>>), SeriesB, "sp", 50, Date20240201),
       Product(<<"q", "5">>, <<"B", "a">>, NullName, SeriesB, "super_rare", 0, Date20231231) >>


\* ------------------------------------------------------------ DataSplitter
\* SERIES_CONFIG: the configured series, each with a key and two names
SERIES_CONFIG ==
    << [key |-> <<"b", "b">>, name |-> SeriesB, nameEn |-> <<"B", " ", "s">>] >>

\* .replace(/[^a-z0-9一-鿿]/g, '-')
ReplaceUnsafe(str) ==
    [i \in 1..Len(str) |->
        IF \/ CodeUnit(str[i]) \in 97..122
           \/ CodeUnit(str[i]) \in 48..57
           \/ CodeUnit(str[i]) \in 19968..40959
        THEN str[i] ELSE "-"]

\* .replace(/-+/g, '-')
RECURSIVE CollapseDashes(_)
CollapseDashes(str) ==
    IF Len(str) < 2 THEN str
    ELSE IF str[1] = "-" /\ str[2] = "-" THEN CollapseDashes(Tail(str))
    ELSE <<str[1]>> \o CollapseDashes(Tail(str))

\* .replace(/^-|-$/g, '')
StripEdgeDashes(str) ==
    LET a == IF str # <<>> /\ str[1] = "-" THEN Tail(str) ELSE str
    IN IF a # <<>> /\ a[Len(a)] = "-" THEN SubSeq(a, 1, Len(a) - 1) ELSE a

getSeriesKey(seriesName) ==
    LET matches == {i \in 1..Len(SERIES_CONFIG) :
                        \/ SERIES_CONFIG[i].name = seriesName
                        \/ SERIES_CONFIG[i].nameEn = seriesName}
    IN IF matches # {}
       THEN SERIES_CONFIG[CHOOSE i \in matches : \A j \in matches : i <= j].key
       ELSE StripEdgeDashes(CollapseDashes(ReplaceUnsafe(toLowerCase(seriesName))))

\* the key groupProductsBySeries files a product under
SeriesKeyOfMutantLabel(product) == toLowerCase(product.series)

SeriesKeyOf(product) == getSeriesKey(product.series)

\* seriesGroups keeps its keys in insertion order
GroupPush(groups, product) ==
    LET seriesKey == SeriesKeyOf(product)
    IN IF \E i \in 1..Len(groups) : groups[i].key = seriesKey
       THEN [i \in 1..Len(groups) |->
                IF groups[i].key = seriesKey
                THEN [groups[i] EXCEPT !.products = Append(@, product)]
                ELSE groups[i]]
       ELSE Append(groups, [key |-> seriesKey, products |-> <<product>>])

RECURSIVE groupProductsBySeries(_)
groupProductsBySeries(products) ==
    IF products = <<>> THEN <<>>
    ELSE GroupPush(groupProductsBySeries(SubSeq(products, 1, Len(products) - 1)),
                   products[Len(products)])

\* products.sort((a, b) => getTime(a.releaseDate) - getTime(b.releaseDate))
RECURSIVE InsertByReleaseDate(_, _)
InsertByReleaseDate(sorted, x) ==
    IF sorted = <<>>
       \/ getTime(sorted[Len(sorted)].releaseDate) - getTime(x.releaseDate) <= 0
    THEN Append(sorted, x)
    ELSE Append(InsertByReleaseDate(SubSeq(sorted, 1, Len(sorted) - 1), x),
                sorted[Len(sorted)])

RECURSIVE SortByReleaseDate(_)
SortByReleaseDate(products) ==
    IF products = <<>> THEN <<>>
    ELSE InsertByReleaseDate(SortByReleaseDate(SubSeq(products, 1, Len(products) - 1)),
                             products[Len(products)])

JsonSuffix == <<".", "j", "s", "o", "n">>

\* Object.entries(seriesGroups).sort(([, a], [, b]) => b.length - a.length)
RECURSIVE SortByLength(_)
SortByLength(entries) ==
    IF entries = <<>> THEN <<>>
    ELSE LET sorted == SortByLength(SubSeq(entries, 1, Len(entries) - 1))
             x == entries[Len(entries)]
             before == {i \in 1..Len(sorted) :
                           Len(x.products) - Len(sorted[i].products) <= 0}
             k == IF before = {} THEN 0
                  ELSE CHOOSE i \in before : \A j \in before : j <= i
         IN SubSeq(sorted, 1, k) \o <<x>> \o SubSeq(sorted, k + 1, Len(sorted))

\* the lines preview() prints, one per series file
PreviewLines(seriesGroups) ==
    LET entries == SortByLength(seriesGroups)
    IN [i \in 1..Len(entries) |->
           [fileName |-> entries[i].key \o JsonSuffix,
            count |-> Len(entries[i].products)]]

\* ------------------------------------------- ProductService.getProducts
ArrayIncludes(arr, x) == \E i \in 1..Len(arr) : arr[i] = x

MatchesSearch(product, search) ==
    \/ includes(toLowerCase(product.name), toLowerCase(search))
    \/ /\ ~product.nameEn.null
       /\ product.nameEn.str # <<>>
       /\ includes(toLowerCase(product.nameEn.str), toLowerCase(search))

SearchFilter(products, search) ==
    IF trim(search) # <<>>
    THEN SelectSeq(products, LAMBDA product : MatchesSearch(product, search))
    ELSE products

RarityFilterMutantIgnored(products, rarity) == products

RarityFilter(products, rarity) ==
    IF Len(rarity) > 0
    THEN SelectSeq(products, LAMBDA product : ArrayIncludes(rarity, product.rarityLevel))
    ELSE products

SeriesFilter(products, series) ==
    IF Len(series) > 0
    THEN SelectSeq(products, LAMBDA product : ArrayIncludes(series, product.series))
    ELSE products

MinPriceFilter(products, minPrice) ==
    IF minPrice.k # "undefined"
    THEN SelectSeq(products, LAMBDA product : GreaterEq(product.currentPrice, minPrice))
    ELSE products

MaxPriceFilter(products, maxPrice) ==
    IF maxPrice.k # "undefined"
    THEN SelectSeq(products, LAMBDA product : LessEq(product.currentPrice, maxPrice))
    ELSE products

Filtered(products, params) ==
    MaxPriceFilter(
        MinPriceFilter(
            SeriesFilter(
                RarityFilter(SearchFilter(products, params.search), params.rarity),
                params.series),
            params.minPrice),
        params.maxPrice)

\* rarityOrder[level] || 0
rarityOrderMutantLexicographic(level) ==
    CASE level = "hidden" -> 1
      [] level = "normal" -> 2
      [] level = "rare" -> 3
      [] level = "sp" -> 4
      [] level = "super_rare" -> 5
      [] OTHER -> 0

rarityOrder(level) ==
    CASE level = "normal" -> 1
      [] level = "rare" -> 2
      [] level = "super_rare" -> 3
      [] level = "hidden" -> 4
      [] level = "sp" -> 5
      [] OTHER -> 0

\* aValue < bValue for the sort key the switch selects
KeyLess(a, b, sortBy) ==
    CASE sortBy = "price" -> a.currentPrice < b.currentPrice
      [] sortBy = "rarity" -> rarityOrder(a.rarityLevel) < rarityOrder(b.rarityLevel)
      [] sortBy = "release_date" -> getTime(a.releaseDate) < getTime(b.releaseDate)
      [] OTHER -> StringLess(toLowerCase(a.name), toLowerCase(b.name))

\* the comparator passed to sort
Compare(a, b, sortBy, sortOrder) ==
    IF KeyLess(a, b, sortBy) THEN (IF sortOrder = "asc" THEN -1 ELSE 1)
    ELSE IF KeyLess(b, a, sortBy) THEN (IF sortOrder = "asc" THEN 1 ELSE -1)
    ELSE 0

\* Array.prototype.sort is stable: an element comes behind the elements the
\* comparator puts before it and behind the equal ones that stood before it
SortRankMutantUnstable(products, i, sortBy, sortOrder) ==
    Cardinality({j \in 1..Len(products) :
                    LET c == Compare(products[j], products[i], sortBy, sortOrder)
                    IN c < 0 \/ (c = 0 /\ j > i)}) + 1

SortRank(products, i, sortBy, sortOrder) ==
    Cardinality({j \in 1..Len(products) :
                    LET c == Compare(products[j], products[i], sortBy, sortOrder)
                    IN c < 0 \/ (c = 0 /\ j < i)}) + 1

\* the element of each rank, first rank first
PlaceByRank(products, rank) ==
    [r \in 1..Len(products) |-> products[CHOOSE i \in 1..Len(products) : rank[i] = r]]

SortProducts(products, sortBy, sortOrder) ==
    PlaceByRank(products,
                SubSeq([i \in 1..Len(products) |-> SortRank(products, i, sortBy, sortOrder)],
                       1, Len(products)))

\* destructuring defaults: page = 1, limit = 20
DefaultNumber(x, d) == IF x.k = "undefined" THEN Num(d) ELSE x

TotalPagesMutantFloor(total, limit) ==
    IF limit.k = "num" /\ limit.v > 0 THEN Num(total \div limit.v) ELSE CeilDiv(total, limit)

TotalPages(total, limit) == CeilDiv(total, limit)

OffsetMutantNextPage(page, limit) == Times(page, limit)

Offset(page, limit) == Times(Plus(page, Num(-1)), limit)

\* the imported productsData array after a call: sort() reorders its array
\* in place, and that array is the copy [...productsData] or the result of a
\* filter(), never the imported one
ImportedAfterMutantNoCopy(products, params) ==
    IF /\ trim(params.search) = <<>>
       /\ Len(params.rarity) = 0
       /\ Len(params.series) = 0
       /\ params.minPrice.k = "undefined"
       /\ params.maxPrice.k = "undefined"
    THEN SortProducts(products, params.sortBy, params.sortOrder)
    ELSE products

ImportedAfter(products, params) == products

GetProductsResult(products, params) ==
    LET page == DefaultNumber(params.page, 1)
        limit == DefaultNumber(params.limit, 20)
        filteredProducts ==
            SortProducts(Filtered(products, params), params.sortBy, params.sortOrder)
        total == Len(filteredProducts)
        offset == Offset(page, limit)
    IN  [products |-> slice(filteredProducts, offset, Plus(offset, limit)),
         total |-> total,
         page |-> page,
         totalPages |-> TotalPages(total, limit)]


\* ------------------------------------------------------------------- state
VARIABLES
    files,        \* shard store: [ShardIds -> file content]
    manifest,     \* _index.json: [ok, series]
    backups,      \* backup directories, one per timestamp
    now,          \* the clock new Date() reads
    fm,           \* FieldManager run of each process: [pc, idx]
    todo,         \* the operations each process has still to invoke
    hist,         \* per process, the record of each operation invoked so far
    allProducts,  \* ProductLoader.allProducts
    loadPromise,  \* ProductLoader.loadPromise
    promises,     \* the promises performLoad() has returned
    cachedBy,     \* the promise whose result allProducts holds (0: none)
    calls,        \* the loadAllProducts() calls made so far
    resets,       \* number of resetCache() calls so far
    productsData, \* products.json: the collection ProductService reads
    request,      \* the last products request: raw query and engine parameters
    response,     \* what that request returned
    splitter,     \* the DataSplitter instance: [pc, seriesGroups, next, out]
    seriesFiles,  \* the series files the splitter has written, by key
    seriesIndex,  \* the _index.json the splitter has written
    sourceBackups \* copies of products.json in the backup directory, by timestamp

storeVars == <<files, manifest, backups, now>>
fmVars == <<fm, todo, hist>>
loaderVars == <<allProducts, loadPromise, promises, cachedBy, calls, resets>>
queryVars == <<productsData, request, response>>
splitVars == <<splitter, seriesFiles, seriesIndex, sourceBackups>>
vars == <<files, manifest, backups, now, fm, todo, hist,
          allProducts, loadPromise, promises, cachedBy, calls, resets,
          productsData, request, response,
          splitter, seriesFiles, seriesIndex, sourceBackups>>

FMProcs == {1}

Last(s) == s[Len(s)]

\* ------------------------------------------------------- splitter at rest
NoReport == [made |-> FALSE, lines |-> <<>>]
NoSplitter == [pc |-> "none", products |-> <<>>, seriesGroups |-> <<>>,
               next |-> 0, out |-> <<>>, report |-> NoReport]
NoSeriesIndex == [present |-> FALSE, totalProducts |-> 0, totalSeries |-> 0,
                  series |-> <<>>]
NoSourceCopy == [present |-> FALSE, products |-> <<>>]

SplitterIdle ==
    /\ splitter = NoSplitter
    /\ seriesFiles = <<>>
    /\ seriesIndex = NoSeriesIndex
    /\ sourceBackups = [t \in 0..MaxTime |-> NoSourceCopy]

\* ----------------------------------------------------- products requests
NoParams ==
    [search |-> <<>>, rarity |-> <<>>, series |-> <<>>,
     minPrice |-> UndefinedNumber, maxPrice |-> UndefinedNumber,
     sortBy |-> "name", sortOrder |-> "asc",
     page |-> UndefinedNumber, limit |-> UndefinedNumber]
Absent == [null |-> TRUE, str |-> <<>>]
Given(str) == [null |-> FALSE, str |-> str]
AbsentWord == [null |-> TRUE, str |-> ""]
GivenWord(str) == [null |-> FALSE, str |-> str]
AbsentList == [null |-> TRUE, items |-> <<>>]
GivenList(items) == [null |-> FALSE, items |-> items]

\* a URL without query parameters
NoQuery ==
    [page |-> Absent, limit |-> Absent, search |-> Absent,
     rarity |-> AbsentList, series |-> AbsentList,
     minPrice |-> Absent, maxPrice |-> Absent,
     sortBy |-> AbsentWord, sortOrder |-> AbsentWord]
NoRequest == [via |-> "none", query |-> NoQuery, params |-> NoParams]
NoResponse ==
    [status |-> 0,
     data |-> [products |-> <<>>, total |-> 0, page |-> NaN, totalPages |-> NaN]]

QueryIdle ==
    /\ productsData = <<>>
    /\ request = NoRequest
    /\ response = NoResponse

\* -------------------------------------------------------- initial contents
RecordVariants(id) ==
    { << <<"id", id>> >>,
      << <<"id", id>>, <<"x", "1">> >>,
      << <<"id", id>>, <<"x", "1">>, <<"y", "2">> >> }

\* shard 1 holds two records, every other shard one; the last shard may be
\* malformed on disk
InitShardContents(s) ==
    IF s = 1
    THEN {Doc(<<r1, r2>>) : r1 \in RecordVariants(Ids[1]), r2 \in RecordVariants(Ids[2])}
    ELSE {Doc(<<r>>) : r \in RecordVariants(Ids[s + 1])}
         \cup (IF s = NumShards THEN {Corrupt} ELSE {})

InitStores == {st \in [ShardIds -> UNION {InitShardContents(s) : s \in ShardIds}] :
                 \A s \in ShardIds : st[s] \in InitShardContents(s)}

NoCopy == [present |-> FALSE, content |-> Corrupt]
Copy(content) == [present |-> TRUE, content |-> content]
NoBackup == [made |-> FALSE, copy |-> [s \in ShardIds |-> NoCopy]]

ManifestOf(series) == [ok |-> TRUE, series |-> series]
NoManifest == [ok |-> FALSE, series |-> <<>>]
\* the manifest lists the shards in the order the splitter met their series
Manifests == {NoManifest,
              ManifestOf([i \in 1..NumShards |-> i]),
              ManifestOf([i \in 1..NumShards |-> NumShards + 1 - i])}

\* allProducts is null, or the merged collection
NullProducts == [ok |-> FALSE, recs |-> <<>>]
Loaded(recs) == [ok |-> TRUE, recs |-> recs]

InitLoader ==
    /\ allProducts = NullProducts
    /\ loadPromise = 0
    /\ promises = <<>>
    /\ cachedBy = 0
    /\ calls = <<>>
    /\ resets = 0

InitCommon ==
    /\ files \in InitStores
    /\ manifest = ManifestOf([i \in 1..NumShards |-> i])
    /\ backups = [t \in 0..MaxTime |-> NoBackup]
    /\ now = 0
    /\ fm = [p \in FMProcs |-> [pc |-> "idle", idx |-> 0]]
    /\ hist = [p \in FMProcs |-> <<>>]
    /\ InitLoader
    /\ QueryIdle
    /\ SplitterIdle

\* ------------------------------------------------------------ FieldManager
\* createBackup(): the directory named by the timestamp receives a copy of
\* the first n product files (n = NumShards when it returns normally)
BackupMutantSkipLast(t, n) ==
    [made |-> TRUE,
     copy |-> [s \in ShardIds |->
                 IF s <= n /\ s < NumShards THEN Copy(files[s]) ELSE backups[t].copy[s]]]

createBackup(t, n) ==
    [made |-> TRUE,
     copy |-> [s \in ShardIds |->
                 IF s <= n THEN Copy(files[s]) ELSE backups[t].copy[s]]]

CurrentOp(p) == Last(hist[p]).op

\* the outcome of one file; with the last file the operation returns (ended
\* notes how many resetCache() calls had been made by then, -1 = running)
NoteOutcome(p, o) ==
    hist' = [hist EXCEPT ![p][Len(hist[p])].out = Append(@, o),
                         ![p][Len(hist[p])].ended =
                             IF fm[p].idx = NumShards THEN resets ELSE @]

Advance(p) ==
    fm' = [fm EXCEPT ![p] = IF fm[p].idx = NumShards
                            THEN [pc |-> "idle", idx |-> 0]
                            ELSE [pc |-> "files", idx |-> fm[p].idx + 1]]

\* BeginOpMutantLocked: an operation starts only while no other one runs
BeginOpMutantLocked(p) ==
    /\ \A q \in DOMAIN fm : fm[q].pc = "idle"
    /\ todo[p] # <<>>
    /\ backups' = [backups EXCEPT ![now] = createBackup(now, NumShards)]
    /\ fm' = [fm EXCEPT ![p] = [pc |-> "files", idx |-> 1]]
    /\ hist' = [hist EXCEPT ![p] = Append(@,
                  [op |-> Head(todo[p]), pre |-> files, out |-> <<>>,
                   snap |-> "ok", bkey |-> now, ended |-> -1])]
    /\ todo' = [todo EXCEPT ![p] = Tail(@)]
    /\ UNCHANGED <<files, manifest, now, loaderVars, queryVars, splitVars>>

\* addField / renameField / updateField / removeField up to the forEach:
\* the backup is taken, then the files are processed one by one
BeginOp(p) ==
    /\ fm[p].pc = "idle"
    /\ todo[p] # <<>>
    /\ backups' = [backups EXCEPT ![now] = createBackup(now, NumShards)]
    /\ fm' = [fm EXCEPT ![p] = [pc |-> "files", idx |-> 1]]
    /\ hist' = [hist EXCEPT ![p] = Append(@,
                  [op |-> Head(todo[p]), pre |-> files, out |-> <<>>,
                   snap |-> "ok", bkey |-> now, ended |-> -1])]
    /\ todo' = [todo EXCEPT ![p] = Tail(@)]
    /\ UNCHANGED <<files, manifest, now, loaderVars, queryVars, splitVars>>

\* createBackup() throws (mkdirSync, or copyFileSync of file n+1): the
\* exception leaves the operation, no file is processed
BeginOpSnapshotFault(p, n) ==
    /\ fm[p].pc = "idle"
    /\ todo[p] # <<>>
    /\ backups' = [backups EXCEPT ![now] =
                     IF n = 0 THEN @ ELSE createBackup(now, n - 1)]
    /\ hist' = [hist EXCEPT ![p] = Append(@,
                  [op |-> Head(todo[p]), pre |-> files, out |-> <<>>,
                   snap |-> "failed", bkey |-> now, ended |-> resets])]
    /\ todo' = [todo EXCEPT ![p] = Tail(@)]
    /\ UNCHANGED <<files, manifest, now, fm, loaderVars, queryVars, splitVars>>

\* one pass of the forEach body: read, map, write; a malformed file makes
\* readProductFile throw, which the catch inside the loop swallows
ProcessFile(p) ==
    /\ fm[p].pc = "files"
    /\ LET s == fm[p].idx
           content == files[s]
       IN  IF content.ok
           THEN /\ files' = [files EXCEPT ![s] = UpdatedFile(CurrentOp(p), content)]
                /\ NoteOutcome(p, "ok")
           ELSE /\ files' = files
                /\ NoteOutcome(p, "failed")
    /\ Advance(p)
    /\ UNCHANGED <<manifest, backups, now, todo, loaderVars, queryVars, splitVars>>

\* readFileSync throws: logged, rethrown, swallowed by the loop's catch
ReadFault(p) ==
    /\ fm[p].pc = "files"
    /\ NoteOutcome(p, "failed")
    /\ Advance(p)
    /\ UNCHANGED <<files, manifest, backups, now, todo, loaderVars, queryVars, splitVars>>

\* writeFileSync throws (the file cannot be opened for writing): logged,
\* rethrown, swallowed by the loop's catch; the file is as it was
WriteFault(p) ==
    /\ fm[p].pc = "files"
    /\ files[fm[p].idx].ok
    /\ NoteOutcome(p, "failed")
    /\ Advance(p)
    /\ UNCHANGED <<files, manifest, backups, now, todo, loaderVars, queryVars, splitVars>>

Tick ==
    /\ now < MaxTime
    /\ now' = now + 1
    /\ UNCHANGED <<files, manifest, backups, fmVars, loaderVars, queryVars, splitVars>>

\* ------------------------------------------- one operation, faults included
InitFM ==
    /\ InitCommon
    /\ todo \in [FMProcs -> {<<op>> : op \in AllOps}]

NextFM ==
    \E p \in FMProcs :
        \/ BeginOp(p)
        \/ \E n \in 0..NumShards : BeginOpSnapshotFault(p, n)
        \/ ProcessFile(p)
        \/ ReadFault(p)
        \/ WriteFault(p)

SpecFM == InitFM /\ [][NextFM]_vars


\* ----------------------------------------------------------- ProductLoader
Range(s) == {s[i] : i \in 1..Len(s)}

RECURSIVE Flat(_)
Flat(seqs) == IF seqs = <<>> THEN <<>> ELSE Head(seqs) \o Flat(Tail(seqs))

Unsettled == {q \in 1..Len(promises) : promises[q].phase \in {"index", "shards"}}
Fulfilled == {q \in 1..Len(promises) : promises[q].phase = "fulfilled"}

NewCall(kind, q, result) ==
    [kind |-> kind, prom |-> q, epoch |-> resets, result |-> result,
     inflight |-> Unsettled, fulfilled |-> Fulfilled]

NewPromise ==
    [phase |-> "index", epoch |-> resets, rdEpoch |-> resets, series |-> <<>>,
     done |-> {}, read |-> [s \in ShardIds |-> Corrupt], value |-> NullProducts]

\* loadAllProducts() up to its await: the cached collection, the promise in
\* flight, or a new performLoad() whose promise becomes loadPromise
loadAllProductsMutantNoCacheCheck ==
    /\ Len(calls) < MaxCalls
    /\ IF loadPromise # 0
       THEN /\ calls' = Append(calls, NewCall("joined", loadPromise, NullProducts))
            /\ UNCHANGED <<loadPromise, promises>>
       ELSE /\ promises' = Append(promises, NewPromise)
            /\ loadPromise' = Len(promises) + 1
            /\ calls' = Append(calls, NewCall("owner", Len(promises) + 1, NullProducts))
    /\ UNCHANGED <<storeVars, fmVars, queryVars, splitVars, allProducts, cachedBy, resets>>

loadAllProducts ==
    /\ Len(calls) < MaxCalls
    /\ IF allProducts # NullProducts
       THEN /\ calls' = Append(calls, NewCall("cached", cachedBy, allProducts))
            /\ UNCHANGED <<loadPromise, promises>>
       ELSE IF loadPromise # 0
       THEN /\ calls' = Append(calls, NewCall("joined", loadPromise, NullProducts))
            /\ UNCHANGED <<loadPromise, promises>>
       ELSE /\ promises' = Append(promises, NewPromise)
            /\ loadPromise' = Len(promises) + 1
            /\ calls' = Append(calls, NewCall("owner", Len(promises) + 1, NullProducts))
    /\ UNCHANGED <<storeVars, fmVars, queryVars, splitVars, allProducts, cachedBy, resets>>

\* ImportIndexMutantNoFinally: the failure leaves loadPromise as it is
ImportIndexMutantNoFinally(q) ==
    /\ q \in 1..Len(promises)
    /\ promises[q].phase = "index"
    /\ IF manifest.ok
       THEN promises' = [promises EXCEPT ![q].phase = "shards",
                                         ![q].series = manifest.series,
                                         ![q].rdEpoch = resets]
       ELSE promises' = [promises EXCEPT ![q].phase = "rejected"]
    /\ UNCHANGED loadPromise
    /\ UNCHANGED <<storeVars, fmVars, queryVars, splitVars, allProducts, cachedBy, calls, resets>>

\* performLoad(): the import of _index.json completes.  A manifest that
\* cannot be imported makes performLoad throw; the caller that started it
\* resumes in its finally block, which sets loadPromise to null.
ImportIndex(q) ==
    /\ q \in 1..Len(promises)
    /\ promises[q].phase = "index"
    /\ IF manifest.ok
       THEN /\ promises' = [promises EXCEPT ![q].phase = "shards",
                                            ![q].series = manifest.series,
                                            ![q].rdEpoch = resets]
            /\ UNCHANGED loadPromise
       ELSE /\ promises' = [promises EXCEPT ![q].phase = "rejected"]
            /\ loadPromise' = 0
    /\ UNCHANGED <<storeVars, fmVars, queryVars, splitVars, allProducts, cachedBy, calls, resets>>

\* what the import of one series file contributes: its records, or [] when
\* the import throws (caught, warned)
SeriesResult(content) == IF content.ok THEN content.recs ELSE <<>>

\* seriesResults.flat(), in the order of index.series
Merged(series, read) == Flat([i \in 1..Len(series) |-> SeriesResult(read[series[i]])])

\* the import of one series file completes; with the last one Promise.all
\* resolves, performLoad returns the merged array and the caller that
\* started it resumes: allProducts = result, finally loadPromise = null
ImportSeriesMutantNoCatch(q, s) ==
    /\ q \in 1..Len(promises)
    /\ promises[q].phase = "shards"
    /\ s \in Range(promises[q].series) \ promises[q].done
    /\ IF ~files[s].ok
       THEN /\ promises' = [promises EXCEPT ![q].phase = "rejected"]
            /\ loadPromise' = 0
            /\ UNCHANGED <<allProducts, cachedBy>>
       ELSE LET read == [promises[q].read EXCEPT ![s] = files[s]]
                done == promises[q].done \cup {s}
            IN  IF done = Range(promises[q].series)
                THEN /\ promises' = [promises EXCEPT
                            ![q].read = read, ![q].done = done,
                            ![q].phase = "fulfilled",
                            ![q].value = Loaded(Merged(promises[q].series, read))]
                     /\ allProducts' = Loaded(Merged(promises[q].series, read))
                     /\ cachedBy' = q
                     /\ loadPromise' = 0
                ELSE /\ promises' = [promises EXCEPT ![q].read = read, ![q].done = done]
                     /\ UNCHANGED <<allProducts, cachedBy, loadPromise>>
    /\ UNCHANGED <<storeVars, fmVars, queryVars, splitVars, calls, resets>>

ImportSeries(q, s) ==
    /\ q \in 1..Len(promises)
    /\ promises[q].phase = "shards"
    /\ s \in Range(promises[q].series) \ promises[q].done
    /\ LET read == [promises[q].read EXCEPT ![s] = files[s]]
           done == promises[q].done \cup {s}
       IN  IF done = Range(promises[q].series)
           THEN /\ promises' = [promises EXCEPT
                       ![q].read = read, ![q].done = done,
                       ![q].phase = "fulfilled",
                       ![q].value = Loaded(Merged(promises[q].series, read))]
                /\ allProducts' = Loaded(Merged(promises[q].series, read))
                /\ cachedBy' = q
                /\ loadPromise' = 0
           ELSE /\ promises' = [promises EXCEPT ![q].read = read, ![q].done = done]
                /\ UNCHANGED <<allProducts, cachedBy, loadPromise>>
    /\ UNCHANGED <<storeVars, fmVars, queryVars, splitVars, calls, resets>>

resetCache ==
    /\ resets < MaxResets
    /\ allProducts' = NullProducts
    /\ loadPromise' = 0
    /\ cachedBy' = 0
    /\ resets' = resets + 1
    /\ UNCHANGED <<storeVars, fmVars, queryVars, splitVars, promises, calls>>

LoaderStores ==
    {st \in InitStores : \A s \in ShardIds : \A i \in 1..Len(st[s].recs) :
                            Len(st[s].recs[i]) = 1}

InitLoad ==
    /\ files \in LoaderStores
    /\ manifest \in Manifests
    /\ backups = [t \in 0..MaxTime |-> NoBackup]
    /\ now = 0
    /\ fm = [p \in FMProcs |-> [pc |-> "idle", idx |-> 0]]
    /\ hist = [p \in FMProcs |-> <<>>]
    /\ todo = [p \in FMProcs |-> <<>>]
    /\ InitLoader
    /\ QueryIdle
    /\ SplitterIdle

NextLoad ==
    \/ loadAllProducts
    \/ \E q \in 1..MaxCalls : ImportIndex(q)
    \/ \E q \in 1..MaxCalls : \E s \in ShardIds : ImportSeries(q, s)
    \/ resetCache

SpecLoad == InitLoad /\ [][NextLoad]_vars

\* the loader while _index.json, missing at first, is written again (the
\* splitter's createSeriesIndex writes the file whole)
IndexRestored ==
    /\ ~manifest.ok
    /\ manifest' = ManifestOf([i \in 1..NumShards |-> i])
    /\ UNCHANGED <<files, backups, now, fmVars, loaderVars, queryVars, splitVars>>

NextLoadRetry ==
    \/ loadAllProducts
    \/ \E q \in 1..MaxCalls : ImportIndex(q)
    \/ \E q \in 1..MaxCalls : \E s \in ShardIds : ImportSeries(q, s)
    \/ resetCache
    \/ IndexRestored

SpecLoadRetry == InitLoad /\ [][NextLoadRetry]_vars

\* the loader beside one run of the mutation tool (another process)
TagOp == Op("addField", "tag", "-", "new")

InitLoadStore ==
    /\ files \in LoaderStores
    /\ manifest \in Manifests
    /\ backups = [t \in 0..MaxTime |-> NoBackup]
    /\ now = 0
    /\ fm = [p \in FMProcs |-> [pc |-> "idle", idx |-> 0]]
    /\ hist = [p \in FMProcs |-> <<>>]
    /\ todo = [p \in FMProcs |-> <<TagOp>>]
    /\ InitLoader
    /\ QueryIdle
    /\ SplitterIdle

NextLoadStore ==
    \/ NextLoad
    \/ \E p \in FMProcs : BeginOp(p) \/ ProcessFile(p)

SpecLoadStore == InitLoadStore /\ [][NextLoadStore]_vars

\* ------------------------------- two operations in a row, no I/O faults
PairScripts ==
    {<<op, op>> : op \in AddOps}
    \cup {<<Op("renameField", a, b, "-"), Op("renameField", b, a, "-")>> :
            a \in FieldNames, b \in FieldNames}
    \cup {<<Op("addField", f, "-", v), Op("removeField", f, "-", "-")>> :
            f \in FieldNames, v \in DefaultValues}

InitTwice ==
    /\ InitCommon
    /\ todo \in [FMProcs -> PairScripts]

NextTwice ==
    \/ \E p \in FMProcs : BeginOp(p) \/ ProcessFile(p)
    \/ Tick

SpecTwice == InitTwice /\ [][NextTwice]_vars

\* ------------------ two operations at once, each in its own CLI process
TwoProcs == {1, 2}

InitTwoProcs ==
    /\ files \in InitStores
    /\ manifest = ManifestOf([i \in 1..NumShards |-> i])
    /\ backups = [t \in 0..MaxTime |-> NoBackup]
    /\ now = 0
    /\ fm = [p \in TwoProcs |-> [pc |-> "idle", idx |-> 0]]
    /\ hist = [p \in TwoProcs |-> <<>>]
    /\ todo \in {[p \in TwoProcs |-> IF p = 1 THEN <<a>> ELSE <<b>>] :
                    a \in AddOps, b \in RemoveOps}
    /\ InitLoader
    /\ QueryIdle
    /\ SplitterIdle

NextTwoProcs == \E p \in TwoProcs : BeginOp(p) \/ ProcessFile(p)

SpecTwoProcs == InitTwoProcs /\ [][NextTwoProcs]_vars

\* ------------------------------------------------- the query engine alone
\* products.json: records of the pool, in pool order or in reverse
PoolIndexSets == {S \in SUBSET (1..Len(ProductPool)) : Cardinality(S) <= MaxProducts}

RECURSIVE Ascending(_)
Ascending(S) ==
    IF S = {} THEN <<>>
    ELSE LET m == CHOOSE x \in S : \A y \in S : x <= y
         IN  <<m>> \o Ascending(S \ {m})

PoolSelection(S) == [i \in 1..Cardinality(S) |-> ProductPool[Ascending(S)[i]]]

Collections ==
    {PoolSelection(S) : S \in PoolIndexSets}
    \cup {Reverse(PoolSelection(S)) : S \in PoolIndexSets}

Searches == {<<>>, <<"b", " ", "A">>}
RarityLists == {<<>>, <<"hidden", "rare">>}
SeriesLists == {<<>>, <<SeriesB>>}
PriceBounds == {UndefinedNumber, Num(50)}
SortKeys == {"name", "price", "rarity", "release_date"}
SortOrders == {"asc", "desc"}
Pages == {Num(n) : n \in 1..MaxPage}
Limits == {UndefinedNumber} \cup {Num(n) : n \in 1..MaxLimit}

\* the parameters a caller that respects the contract passes: a trimmed
\* search text, a 1-based page and a positive page size
EngineParams ==
    [search : Searches, rarity : RarityLists, series : SeriesLists,
     minPrice : PriceBounds, maxPrice : PriceBounds,
     sortBy : SortKeys, sortOrder : SortOrders,
     page : Pages, limit : Limits]

\* one call of ProductService.getProducts: filter, sort and slice a copy of
\* productsData
getProducts(params) ==
    /\ request' = [via |-> "engine", query |-> NoQuery, params |-> params]
    /\ response' = [status |-> 200, data |-> GetProductsResult(productsData, params)]
    /\ productsData' = ImportedAfter(productsData, params)
    /\ UNCHANGED <<storeVars, fmVars, loaderVars, splitVars>>

InitIdleStore ==
    /\ files = [s \in ShardIds |-> Doc(<<>>)]
    /\ manifest = NoManifest
    /\ backups = [t \in 0..MaxTime |-> NoBackup]
    /\ now = 0
    /\ fm = [p \in FMProcs |-> [pc |-> "idle", idx |-> 0]]
    /\ hist = [p \in FMProcs |-> <<>>]
    /\ todo = [p \in FMProcs |-> <<>>]
    /\ InitLoader
    /\ SplitterIdle

InitQuery ==
    /\ InitIdleStore
    /\ productsData \in Collections
    /\ request = NoRequest
    /\ response = NoResponse

NextQuery ==
    /\ request = NoRequest
    /\ \E params \in EngineParams : getProducts(params)

SpecQuery == InitQuery /\ [][NextQuery]_vars

\* the filters of getProducts under every combination of filter parameters
\* (sort and paging left at their defaults)
FilterSearches == {<<>>, <<"b", " ", "A">>, <<"a", "B">>}
FilterRarityLists == {<<>>, <<"hidden", "rare">>, <<"sp">>}
FilterSeriesLists == {<<>>, <<SeriesB>>, <<SeriesAdashB, SeriesB>>}
FilterMinPrices == {UndefinedNumber, Num(50), Num(100)}
FilterMaxPrices == {UndefinedNumber, Num(50), Num(0)}

FilterParams ==
    [search : FilterSearches, rarity : FilterRarityLists, series : FilterSeriesLists,
     minPrice : FilterMinPrices, maxPrice : FilterMaxPrices,
     sortBy : {"name"}, sortOrder : {"asc"},
     page : {UndefinedNumber}, limit : {UndefinedNumber}]

NextFilter ==
    /\ request = NoRequest
    /\ \E params \in FilterParams : getProducts(params)

SpecFilter == InitQuery /\ [][NextFilter]_vars

\* calls one after the other, each with its own sort key and direction
CallParams ==
    [search : {<<>>}, rarity : RarityLists, series : {<<>>},
     minPrice : {UndefinedNumber}, maxPrice : {UndefinedNumber},
     sortBy : SortKeys, sortOrder : SortOrders,
     page : {UndefinedNumber}, limit : {UndefinedNumber}]

NextCalls == \E params \in CallParams : getProducts(params)

SpecCalls == InitQuery /\ [][NextCalls]_vars

\* ------------------------------------------------ GET /api/products
MaxPageSize == 50

\* searchParams.get(name) || fallback
OrElse(param, fallback) ==
    IF param.null \/ param.str = <<>> THEN fallback ELSE param.str

OrElseWord(param, fallback) ==
    IF param.null \/ param.str = "" THEN fallback ELSE param.str

\* param ? param.split(',') : [], the parameter given by its comma-separated
\* items
SplitList(param) ==
    IF param.null \/ param.items = <<>> THEN <<>> ELSE param.items

\* searchParams.get(name) ? parseFloat(...) : undefined
OptionalNumber(param) ==
    IF param.null \/ param.str = <<>> THEN UndefinedNumber ELSE parseFloat(param.str)

Limit(query) == MathMin(parseInt(OrElse(query.limit, <<"2", "0">>)), MaxPageSize)

\* requestParams (an undefined rarity / series takes the engine's default [])
RequestParams(query) ==
    [page |-> parseInt(OrElse(query.page, <<"1">>)),
     limit |-> Limit(query),
     search |-> trim(OrElse(query.search, <<>>)),
     rarity |-> SplitList(query.rarity),
     series |-> SplitList(query.series),
     minPrice |-> OptionalNumber(query.minPrice),
     maxPrice |-> OptionalNumber(query.maxPrice),
     sortBy |-> OrElseWord(query.sortBy, "name"),
     sortOrder |-> OrElseWord(query.sortOrder, "asc")]

\* the handler: parse the query, call the service, wrap the result
GET(query) ==
    /\ request = NoRequest
    /\ request' = [via |-> "route", query |-> query, params |-> RequestParams(query)]
    /\ response' = [status |-> 200,
                    data |-> GetProductsResult(productsData, RequestParams(query))]
    /\ productsData' = ImportedAfter(productsData, RequestParams(query))
    /\ UNCHANGED <<storeVars, fmVars, loaderVars, splitVars>>

\* decimal digits of a natural number
DigitChars == <<"0", "1", "2", "3", "4", "5", "6", "7", "8", "9">>

RECURSIVE ToDigits(_)
ToDigits(n) ==
    IF n < 10 THEN <<DigitChars[n + 1]>>
    ELSE ToDigits(n \div 10) \o <<DigitChars[(n % 10) + 1]>>

\* a products.json with more records than the largest page
LargeCollection ==
    [i \in 1..(MaxPageSize + 2) |->
        [ProductPool[(i % Len(ProductPool)) + 1] EXCEPT !.id = <<"n">> \o ToDigits(i)]]

QueryStrings ==
    [page : {Absent, Given(<<"2">>), Given(<<"0">>)},
     limit : {Absent, Given(<<>>), Given(<<"0">>), Given(<<"-", "1">>), Given(<<"2">>),
              Given(<<"6", "0">>), Given(<<"x">>), Given(<<"2", "x">>)},
     search : {Absent, Given(<<" ", "b", " ", "A", " ">>)},
     rarity : {AbsentList, GivenList(<<"hidden", "rare">>)},
     series : {AbsentList},
     minPrice : {Absent, Given(<<"5", "0">>), Given(<<"x">>)},
     maxPrice : {Absent},
     sortBy : {AbsentWord, GivenWord("price"), GivenWord("newest")},
     sortOrder : {AbsentWord, GivenWord("desc"), GivenWord("down")}]

InitRoute ==
    /\ InitIdleStore
    /\ productsData \in {PoolSelection(1..n) : n \in 0..MaxProducts} \cup {LargeCollection}
    /\ request = NoRequest
    /\ response = NoResponse

NextRoute ==
    /\ request = NoRequest
    /\ \E query \in QueryStrings : GET(query)

SpecRoute == InitRoute /\ [][NextRoute]_vars

\* ------------------------------------------------------ DataSplitter runs
\* new DataSplitter(): loadSourceData() then groupProductsBySeries()
NewDataSplitter ==
    /\ splitter.pc = "none"
    /\ splitter' = [pc |-> "ready", products |-> productsData,
                    seriesGroups |-> groupProductsBySeries(productsData),
                    next |-> 0, out |-> <<>>, report |-> NoReport]
    /\ UNCHANGED <<seriesFiles, seriesIndex, sourceBackups>>
    /\ UNCHANGED <<storeVars, fmVars, loaderVars, queryVars>>

\* preview(): the entries of seriesGroups, largest group first, are printed
\* as '<seriesKey>.json (<n> products)'
previewMutantWritesIndex ==
    /\ splitter.pc = "ready"
    /\ ~splitter.report.made
    /\ splitter' = [splitter EXCEPT
                        !.report = [made |-> TRUE,
                                    lines |-> PreviewLines(splitter.seriesGroups)]]
    /\ seriesIndex' = [NoSeriesIndex EXCEPT !.present = TRUE]
    /\ UNCHANGED <<seriesFiles, sourceBackups>>
    /\ UNCHANGED <<storeVars, fmVars, loaderVars, queryVars>>

preview ==
    /\ splitter.pc = "ready"
    /\ ~splitter.report.made
    /\ splitter' = [splitter EXCEPT
                        !.report = [made |-> TRUE,
                                    lines |-> PreviewLines(splitter.seriesGroups)]]
    /\ UNCHANGED <<seriesFiles, seriesIndex, sourceBackups>>
    /\ UNCHANGED <<storeVars, fmVars, loaderVars, queryVars>>

\* split(), steps 1 and 2: createBackup() copies products.json under the
\* current timestamp, ensureDirectories() makes the products directory
split ==
    /\ splitter.pc = "ready"
    /\ sourceBackups' = [sourceBackups EXCEPT
                            ![now] = [present |-> TRUE, products |-> productsData]]
    /\ splitter' = [splitter EXCEPT !.pc = "writing", !.next = 1]
    /\ UNCHANGED <<seriesFiles, seriesIndex>>
    /\ UNCHANGED <<storeVars, fmVars, loaderVars, queryVars>>

\* copyFileSync throws: split() rethrows before anything is written
splitBackupFault ==
    /\ splitter.pc = "ready"
    /\ splitter' = [splitter EXCEPT !.pc = "threw"]
    /\ UNCHANGED <<seriesFiles, seriesIndex, sourceBackups>>
    /\ UNCHANGED <<storeVars, fmVars, loaderVars, queryVars>>

\* writeSeriesFiles(), one entry of seriesGroups: the group is sorted in
\* place by release date and written to <seriesKey>.json
writeSeriesFile ==
    /\ splitter.pc = "writing"
    /\ splitter.next <= Len(splitter.seriesGroups)
    /\ LET group == splitter.seriesGroups[splitter.next]
           sortedProducts == SortByReleaseDate(group.products)
       IN /\ seriesFiles' =
                [k \in DOMAIN seriesFiles \cup {group.key} |->
                    IF k = group.key THEN Doc(sortedProducts) ELSE seriesFiles[k]]
          /\ splitter' = [splitter EXCEPT
                            !.seriesGroups[splitter.next].products = sortedProducts,
                            !.next = @ + 1,
                            !.out = Append(@, "ok")]
    /\ UNCHANGED <<seriesIndex, sourceBackups>>
    /\ UNCHANGED <<storeVars, fmVars, loaderVars, queryVars>>

\* writeFileSync throws: the error is logged and the loop goes on
writeSeriesFileFault ==
    /\ splitter.pc = "writing"
    /\ splitter.next <= Len(splitter.seriesGroups)
    /\ LET group == splitter.seriesGroups[splitter.next]
           sortedProducts == SortByReleaseDate(group.products)
       IN splitter' = [splitter EXCEPT
                            !.seriesGroups[splitter.next].products = sortedProducts,
                            !.next = @ + 1,
                            !.out = Append(@, "failed")]
    /\ UNCHANGED <<seriesFiles, seriesIndex, sourceBackups>>
    /\ UNCHANGED <<storeVars, fmVars, loaderVars, queryVars>>

\* createSeriesIndex(): _index.json is computed from the groups in memory
createSeriesIndex ==
    /\ splitter.pc = "writing"
    /\ splitter.next > Len(splitter.seriesGroups)
    /\ seriesIndex' =
          [present |-> TRUE,
           totalProducts |-> Len(splitter.products),
           totalSeries |-> Len(splitter.seriesGroups),
           series |-> [i \in 1..Len(splitter.seriesGroups) |->
                          [key |-> splitter.seriesGroups[i].key,
                           productCount |-> Len(splitter.seriesGroups[i].products),
                           fileName |-> splitter.seriesGroups[i].key \o JsonSuffix]]]
    /\ splitter' = [splitter EXCEPT !.pc = "done"]
    /\ UNCHANGED <<seriesFiles, sourceBackups>>
    /\ UNCHANGED <<storeVars, fmVars, loaderVars, queryVars>>

\* writing _index.json throws: the error is logged, split() returns normally
createSeriesIndexFault ==
    /\ splitter.pc = "writing"
    /\ splitter.next > Len(splitter.seriesGroups)
    /\ splitter' = [splitter EXCEPT !.pc = "done"]
    /\ UNCHANGED <<seriesFiles, seriesIndex, sourceBackups>>
    /\ UNCHANGED <<storeVars, fmVars, loaderVars, queryVars>>

NextSplit ==
    \/ NewDataSplitter
    \/ preview
    \/ split
    \/ splitBackupFault
    \/ writeSeriesFile
    \/ writeSeriesFileFault
    \/ createSeriesIndex
    \/ createSeriesIndexFault

SpecSplit == InitQuery /\ [][NextSplit]_vars

\* ------------------------------------------------------------------ claims
FailedAt(h, k) ==
    /\ k \in 1..Len(h.out)
    /\ h.out[k] = "failed"
    /\ \A j \in 1..(k - 1) : h.out[j] = "ok"

BackupHoldsPre(h) ==
    /\ backups[h.bkey].made
    /\ \A s \in ShardIds : backups[h.bkey].copy[s] = Copy(h.pre[s])

\* C6: when a mutation operation fails on shard k of n it stops there:
\* shards 1..k-1 hold the transformed records, shards k..n are exactly as
\* before the operation, and the backup taken at the start holds the
\* pre-operation content of all n shards.
C6_StopsAtFailedShard ==
    \A p \in FMProcs : \A n \in 1..Len(hist[p]) :
        LET h == hist[p][n] IN
        \A k \in ShardIds :
            FailedAt(h, k) =>
                /\ \A s \in 1..(k - 1) : files[s] = UpdatedFile(h.op, h.pre[s])
                /\ \A s \in k..NumShards : files[s] = h.pre[s]
                /\ BackupHoldsPre(h)

\* C7: the backup of all shard files is complete before the first shard file
\* is written, and when creating the backup fails the operation ends with no
\* shard file written (store unchanged).
C7_BackupBeforeWrite ==
    \A p \in FMProcs :
        hist[p] # <<>> =>
            LET h == Last(hist[p]) IN
            /\ h.snap = "ok" => BackupHoldsPre(h)
            /\ h.snap = "failed" =>
                   /\ h.out = <<>>
                   /\ fm[p].pc = "idle"
                   /\ files = h.pre
            /\ files # h.pre => h.snap = "ok"

C7_Witness ==
    \E p \in FMProcs :
        /\ hist[p] # <<>>
        /\ Last(hist[p]).snap = "ok"
        /\ \E s \in ShardIds :
              /\ files[s] # Last(hist[p]).pre[s]
              /\ backups[Last(hist[p]).bkey].copy[s] # Copy(files[s])

\* C8: addField is idempotent: while and after addField(name, v) runs a
\* second time, every shard file is as the first run left it.
C8_AddFieldIdempotent ==
    \A p \in FMProcs :
        (/\ Len(hist[p]) = 2
         /\ hist[p][1].op.kind = "addField"
         /\ hist[p][2].op = hist[p][1].op)
        => files = hist[p][2].pre

C8_Witness ==
    \E p \in FMProcs :
        /\ Len(hist[p]) = 2
        /\ hist[p][1].op.kind = "addField"
        /\ hist[p][2].op = hist[p][1].op
        /\ fm[p].pc = "idle"
        /\ \E s \in ShardIds : hist[p][2].out[s] = "ok" /\ files[s] # hist[p][1].pre[s]

StoreHasField(st, f) ==
    \E s \in ShardIds : \E i \in 1..Len(st[s].recs) : hasOwnProperty(st[s].recs[i], f)

SameFieldsAndValues(r1, r2) ==
    /\ KeysOf(r1) = KeysOf(r2)
    /\ \A k \in KeysOf(r1) : GetField(r1, k) = GetField(r2, k)

RenamedThereAndBack(p) ==
    /\ Len(hist[p]) = 2
    /\ fm[p].pc = "idle"
    /\ hist[p][1].op.kind = "renameField"
    /\ hist[p][2].op = Op("renameField", hist[p][1].op.g, hist[p][1].op.f, "-")
    /\ ~StoreHasField(hist[p][1].pre, hist[p][1].op.g)

\* C9: on a store in which no record contains b, renameField(a, b) followed
\* by renameField(b, a) leaves every record with the same set of field names
\* and the same values as before.
C9_RenameRoundTrip ==
    \A p \in FMProcs :
        RenamedThereAndBack(p) =>
            \A s \in ShardIds :
                /\ files[s].ok = hist[p][1].pre[s].ok
                /\ Len(files[s].recs) = Len(hist[p][1].pre[s].recs)
                /\ \A i \in 1..Len(files[s].recs) :
                      SameFieldsAndValues(files[s].recs[i], hist[p][1].pre[s].recs[i])

C9_Witness ==
    \E p \in FMProcs :
        /\ RenamedThereAndBack(p)
        /\ hist[p][1].op.f # hist[p][1].op.g
        /\ \E s \in ShardIds : hist[p][2].pre[s] # hist[p][1].pre[s]
        /\ \E s \in ShardIds : files[s] # hist[p][1].pre[s]

\* C10: addField(name, v) sets name to v on exactly the records that lack
\* the field, and leaves every record that already has the field (whatever
\* its value) and every other field of every record unchanged.
C10_AddFieldUpsert ==
    \A p \in FMProcs : \A n \in 1..Len(hist[p]) :
        LET h == hist[p][n] IN
        (h.op.kind = "addField" /\ n = Len(hist[p])) =>
            \A s \in 1..Len(h.out) :
                h.out[s] = "ok" =>
                    /\ Len(files[s].recs) = Len(h.pre[s].recs)
                    /\ \A i \in 1..Len(h.pre[s].recs) :
                          LET old == h.pre[s].recs[i]
                              new == files[s].recs[i]
                          IN  IF hasOwnProperty(old, h.op.f)
                              THEN new = old
                              ELSE /\ KeysOf(new) = KeysOf(old) \cup {h.op.f}
                                   /\ GetField(new, h.op.f) = h.op.v
                                   /\ \A k \in KeysOf(old) : GetField(new, k) = GetField(old, k)

C10_Witness ==
    \E p \in FMProcs :
        /\ hist[p] # <<>>
        /\ Last(hist[p]).op.kind = "addField"
        /\ Last(hist[p]).out = <<"ok", "ok">>
        /\ \E i, j \in 1..Len(files[1].recs) :
              /\ ~hasOwnProperty(Last(hist[p]).pre[1].recs[i], Last(hist[p]).op.f)
              /\ GetField(files[1].recs[i], Last(hist[p]).op.f) = Last(hist[p]).op.v
              /\ hasOwnProperty(Last(hist[p]).pre[1].recs[j], Last(hist[p]).op.f)
              /\ GetField(files[1].recs[j], Last(hist[p]).op.f) # Last(hist[p]).op.v

\* C11: renameField(old, new) with old # new: in every shard file the
\* operation processed, a record that had old ends with new equal to its
\* former old value and without old, also when it already had new (whose
\* former value is gone), its other fields as before; a record without old
\* is unchanged.
C11_RenameMovesValue ==
    \A p \in FMProcs :
        (/\ hist[p] # <<>>
         /\ Last(hist[p]).op.kind = "renameField"
         /\ Last(hist[p]).op.f # Last(hist[p]).op.g) =>
            LET h == Last(hist[p]) IN
            \A s \in 1..Len(h.out) :
                h.out[s] = "ok" =>
                    /\ Len(files[s].recs) = Len(h.pre[s].recs)
                    /\ \A i \in 1..Len(h.pre[s].recs) :
                          LET old == h.pre[s].recs[i]
                              new == files[s].recs[i]
                          IN  IF hasOwnProperty(old, h.op.f)
                              THEN /\ KeysOf(new) = (KeysOf(old) \ {h.op.f}) \cup {h.op.g}
                                   /\ GetField(new, h.op.g) = GetField(old, h.op.f)
                                   /\ \A k \in KeysOf(old) \ {h.op.f, h.op.g} :
                                         GetField(new, k) = GetField(old, k)
                              ELSE new = old

C11_Witness ==
    \E p \in FMProcs :
        /\ hist[p] # <<>>
        /\ Last(hist[p]).op.kind = "renameField"
        /\ Last(hist[p]).op.f # Last(hist[p]).op.g
        /\ Last(hist[p]).out = <<"ok", "ok">>
        /\ \E i, j \in 1..Len(files[1].recs) :
              LET h == Last(hist[p]) IN
              /\ hasOwnProperty(h.pre[1].recs[i], h.op.f)
              /\ hasOwnProperty(h.pre[1].recs[i], h.op.g)
              /\ GetField(h.pre[1].recs[i], h.op.g) # GetField(h.pre[1].recs[i], h.op.f)
              /\ GetField(files[1].recs[i], h.op.g) = GetField(h.pre[1].recs[i], h.op.f)
              /\ ~hasOwnProperty(h.pre[1].recs[j], h.op.f)
              /\ hasOwnProperty(h.pre[1].recs[j], h.op.g)

AddedThenRemoved(p) ==
    /\ Len(hist[p]) = 2
    /\ fm[p].pc = "idle"
    /\ hist[p][1].op.kind = "addField"
    /\ hist[p][2].op = Op("removeField", hist[p][1].op.f, "-", "-")

\* C12: after removeField(name) no record of any shard contains name and
\* every other field of every record is as before; so on a store in which
\* no record contains name, addField(name, v) followed by removeField(name)
\* leaves every shard file exactly as it was.
C12_RemoveFieldExact ==
    \A p \in FMProcs :
        AddedThenRemoved(p) =>
            LET h == hist[p][2] IN
            /\ ~StoreHasField(files, h.op.f)
            /\ \A s \in ShardIds :
                  /\ files[s].ok = h.pre[s].ok
                  /\ Len(files[s].recs) = Len(h.pre[s].recs)
                  /\ \A i \in 1..Len(files[s].recs) :
                        /\ KeysOf(files[s].recs[i]) = KeysOf(h.pre[s].recs[i]) \ {h.op.f}
                        /\ \A k \in KeysOf(files[s].recs[i]) :
                              GetField(files[s].recs[i], k) = GetField(h.pre[s].recs[i], k)
            /\ ~StoreHasField(hist[p][1].pre, h.op.f) => files = hist[p][1].pre

C12_Witness ==
    \E p \in FMProcs :
        /\ AddedThenRemoved(p)
        /\ ~StoreHasField(hist[p][1].pre, hist[p][1].op.f)
        /\ \A s \in ShardIds : files[s].ok
        /\ \A s \in ShardIds : hist[p][2].pre[s] # files[s]
        /\ \E s \in ShardIds : \E i \in 1..Len(files[s].recs) : Len(files[s].recs[i]) = 2
        /\ files = hist[p][1].pre

\* --------------------------------------------------- query engine claims
EngineCall == request.via = "engine"

\* the page size in force: limit, 20 when none is given
PageSize == IF request.params.limit.k = "undefined" THEN 20 ELSE request.params.limit.v

\* what getProducts returns for page k of the request's other parameters
PageOf(k) == GetProductsResult(productsData, [request.params EXCEPT !.page = Num(k)])

RECURSIVE ConcatPages(_, _)
ConcatPages(k, n) ==
    IF k > n THEN <<>> ELSE PageOf(k).products \o ConcatPages(k + 1, n)

\* the four predicates of the contract
PassesSearch(product, search) ==
    \/ includes(toLowerCase(product.name), toLowerCase(search))
    \/ /\ ~product.nameEn.null
       /\ includes(toLowerCase(product.nameEn.str), toLowerCase(search))

PassesRarity(product, rarity) ==
    rarity = <<>> \/ product.rarityLevel \in Range(rarity)

PassesSeries(product, series) ==
    series = <<>> \/ product.series \in Range(series)

PassesPrice(product, minPrice, maxPrice) ==
    /\ minPrice.k = "undefined" \/ minPrice.v <= product.currentPrice
    /\ maxPrice.k = "undefined" \/ product.currentPrice <= maxPrice.v

PassesAll(product, params) ==
    /\ PassesSearch(product, params.search)
    /\ PassesRarity(product, params.rarity)
    /\ PassesSeries(product, params.series)
    /\ PassesPrice(product, params.minPrice, params.maxPrice)

\* x may stand before y in the order the request asks for
InOrder(x, y, sortBy, sortOrder) ==
    IF sortOrder = "asc" THEN ~KeyLess(y, x, sortBy) ELSE ~KeyLess(x, y, sortBy)

\* C13: for every collection and every combination of search, rarity,
\* series, price-range, sort and (positive) page-size parameters, the
\* products of pages 1..totalPages, concatenated, are exactly the records
\* that pass the filters, each once, in the sort order.
C13_PagesCoverFilteredSet ==
    EngineCall =>
        LET all == ConcatPages(1, response.data.totalPages.v)
        IN  /\ response.data.totalPages.k = "num"
            /\ \A i, j \in 1..Len(all) : i # j => all[i].id # all[j].id
            /\ Range(all) = {productsData[i] : i \in
                               {n \in 1..Len(productsData) :
                                  PassesAll(productsData[n], request.params)}}
            /\ \A i \in 1..(Len(all) - 1) :
                  InOrder(all[i], all[i + 1], request.params.sortBy, request.params.sortOrder)

C13_Witness ==
    /\ EngineCall
    /\ response.data.totalPages = Num(2)
    /\ response.data.total = 2
    /\ request.params.page = Num(2)
    /\ Len(response.data.products) = 1
    /\ request.params.rarity # <<>>
    /\ Len(productsData) > response.data.total
    /\ request.params.sortBy = "price"
    /\ response.data.products[1].currentPrice > PageOf(1).products[1].currentPrice

\* C15: whatever the limit query parameter is (any integer, zero and
\* negative included, or a non-numeric string), the route gives the query
\* engine a page size that does not exceed 50 and the response holds at most
\* 50 records.
C15_PageSizeBounded ==
    request.via = "route" =>
        /\ ~(request.params.limit.k = "num" /\ request.params.limit.v > MaxPageSize)
        /\ Len(response.data.products) <= MaxPageSize

\* the fixed rarity ranking of the contract, lowest first
RarityRanking == <<"normal", "rare", "super_rare", "hidden", "sp">>

RankOf(level) == CHOOSE n \in 1..Len(RarityRanking) : RarityRanking[n] = level

\* C14: with sortBy = rarity the records come in the fixed rank order
\* normal < rare < super_rare < hidden < sp (reversed for desc), not in the
\* alphabetical order of the rarity string: ascending, a hidden record comes
\* after a rare one.
C14_RaritySortByRank ==
    (EngineCall /\ request.params.sortBy = "rarity") =>
        \A i, j \in 1..Len(response.data.products) :
            i < j =>
                LET x == response.data.products[i]
                    y == response.data.products[j]
                IN  IF request.params.sortOrder = "asc"
                    THEN RankOf(x.rarityLevel) <= RankOf(y.rarityLevel)
                    ELSE RankOf(x.rarityLevel) >= RankOf(y.rarityLevel)

C14_Witness ==
    /\ EngineCall
    /\ request.params.sortBy = "rarity"
    /\ request.params.sortOrder = "asc"
    /\ Len(response.data.products) = 2
    /\ response.data.products[1].rarityLevel = "rare"
    /\ response.data.products[2].rarityLevel = "hidden"
    /\ productsData[1].rarityLevel = "hidden"

\* C16: totalPages is ceil(total / limit), the least number of pages of
\* limit records that hold total records, and a page beyond totalPages gets
\* an empty products list with the same total and totalPages, without an
\* error.
C16_TotalPagesAndBeyond ==
    EngineCall =>
        /\ response.status = 200
        /\ response.data.totalPages.k = "num"
        /\ response.data.totalPages.v * PageSize >= response.data.total
        /\ (response.data.totalPages.v - 1) * PageSize < response.data.total
        /\ response.data.total = PageOf(1).total
        /\ response.data.totalPages = PageOf(1).totalPages
        /\ request.params.page.v > response.data.totalPages.v =>
               response.data.products = <<>>

C16_Witness ==
    /\ EngineCall
    /\ response.status = 200
    /\ response.data.total = 3
    /\ response.data.totalPages = Num(2)
    /\ request.params.page.v > 2
    /\ response.data.products = <<>>
    /\ PageOf(2).products # <<>>

\* the four filters of getProducts, by number
ApplyFilter(n, products, params) ==
    CASE n = 1 -> SearchFilter(products, params.search)
      [] n = 2 -> RarityFilter(products, params.rarity)
      [] n = 3 -> SeriesFilter(products, params.series)
      [] n = 4 -> MaxPriceFilter(MinPriceFilter(products, params.minPrice), params.maxPrice)

FilterOrders == Permutations(1..4)

FilteredInOrder(o, products, params) ==
    ApplyFilter(o[4],
        ApplyFilter(o[3],
            ApplyFilter(o[2],
                ApplyFilter(o[1], products, params), params), params), params)

\* C17: the records that pass the filters are the same for every order of
\* applying the four filters, and total is the number of records that
\* satisfy all four predicates (search a case-insensitive substring of name
\* or nameEn; rarity in the given set, empty = no filter; series in the
\* given set, empty = no filter; minPrice <= currentPrice <= maxPrice).
C17_FiltersCommute ==
    EngineCall =>
        /\ \A o \in FilterOrders :
              FilteredInOrder(o, productsData, request.params)
                  = FilteredInOrder([n \in 1..4 |-> n], productsData, request.params)
        /\ response.data.total =
              Cardinality({n \in 1..Len(productsData) :
                              PassesAll(productsData[n], request.params)})
        /\ response.data.total =
              Len(FilteredInOrder([n \in 1..4 |-> n], productsData, request.params))

C17_Witness ==
    /\ EngineCall
    /\ request.params.search # <<>>
    /\ request.params.rarity # <<>>
    /\ request.params.series # <<>>
    /\ request.params.minPrice = Num(50)
    /\ request.params.maxPrice = Num(50)
    /\ response.data.total = 1
    /\ Len(productsData) = 3
    /\ Len(SearchFilter(productsData, request.params.search)) = 2
    /\ Len(RarityFilter(productsData, request.params.rarity)) = 2
    /\ Len(SeriesFilter(productsData, request.params.series)) = 2

SourceIndex(product) ==
    CHOOSE n \in 1..Len(productsData) : productsData[n].id = product.id

\* C18: records that compare equal on the sort key keep the relative order
\* they have in the source collection, for asc and for desc.
C18_StableSort ==
    EngineCall =>
        LET all == ConcatPages(1, response.data.totalPages.v)
        IN  \A i, j \in 1..Len(all) :
                (/\ i < j
                 /\ ~KeyLess(all[i], all[j], request.params.sortBy)
                 /\ ~KeyLess(all[j], all[i], request.params.sortBy))
                => SourceIndex(all[i]) < SourceIndex(all[j])

C18_Witness ==
    /\ EngineCall
    /\ request.params.sortBy = "name"
    /\ request.params.sortOrder = "desc"
    /\ Len(response.data.products) = 3
    /\ response.data.products[1].id = <<"q", "3">>
    /\ response.data.products[2].id = <<"q", "1">>
    /\ response.data.products[3].id = <<"q", "2">>

\* --------------------------------------------------------- loader claims
\* what a call returned: the cached collection, or the value of its promise
Returned(c) == IF c.kind = "cached" THEN c.result ELSE promises[c.prom].value

ReturnedData(c) == c.kind = "cached" \/ promises[c.prom].phase = "fulfilled"

\* j was issued with no resetCache() since i, while the cache was empty and
\* the load i waits for had not resolved
SameBurst(i, j) ==
    /\ i < j
    /\ calls[i].epoch = calls[j].epoch
    /\ calls[i].kind # "cached"
    /\ calls[i].prom \in calls[j].inflight

\* C1: loadAllProducts() calls issued while the cache is empty and before
\* the first of them resolves, with no resetCache() in between, run
\* performLoad once: they all wait for the same promise.
C1_OneLoadPerBurst ==
    \A i, j \in 1..Len(calls) :
        (SameBurst(i, j) /\ calls[j].kind # "cached") => calls[j].prom = calls[i].prom

\* C2: every caller that calls before the first load resolves (no
\* resetCache() in between) receives the same collection as the first
\* caller, and that collection is the one left in the cache.
C2_SameResultForBurst ==
    \A i, j \in 1..Len(calls) :
        (SameBurst(i, j) /\ promises[calls[i].prom].phase = "fulfilled"
                         /\ ReturnedData(calls[j])) =>
            /\ Returned(calls[j]) = Returned(calls[i])
            /\ resets = calls[i].epoch => allProducts = Returned(calls[i])

FirstAfterReset(j) ==
    /\ calls[j].epoch >= 1
    /\ (j = 1 \/ calls[j - 1].epoch < calls[j].epoch)

\* C3: the first loadAllProducts() after a resetCache() returns the result
\* of a read of the shard store made after the reset, never data read
\* before it, whatever loads were in flight at the reset.
C3_FreshReadAfterReset ==
    \A j \in 1..Len(calls) :
        (FirstAfterReset(j) /\ ReturnedData(calls[j])) =>
            /\ calls[j].prom # 0
            /\ promises[calls[j].prom].rdEpoch >= calls[j].epoch

C19_LoadAfterMutationAndReset ==
    \A p \in FMProcs : \A j \in 1..Len(calls) :
        (/\ hist[p] # <<>>
         /\ Last(hist[p]).ended >= 0
         /\ Last(hist[p]).ended < calls[j].epoch
         /\ FirstAfterReset(j)
         /\ ReturnedData(calls[j]))
        => /\ Returned(calls[j]).recs = Merged(manifest.series, files)
           /\ \A i \in 1..Len(Returned(calls[j]).recs) :
                 hasOwnProperty(Returned(calls[j]).recs[i], Last(hist[p]).op.f)

RECURSIVE ConcatReadable(_, _)
ConcatReadable(series, read) ==
    IF series = <<>> THEN <<>>
    ELSE (IF read[Head(series)].ok THEN read[Head(series)].recs ELSE <<>>)
         \o ConcatReadable(Tail(series), read)

\* C5: a shard of the manifest that fails to load does not fail the load:
\* the merged collection is the concatenation, in manifest order, of the
\* records of the shards that did load.
C5_FailedShardSkipped ==
    \A q \in 1..Len(promises) :
        /\ promises[q].phase = "rejected" => promises[q].series = <<>>
        /\ (promises[q].phase = "shards" /\ promises[q].done = Range(promises[q].series))
               => FALSE
        /\ promises[q].phase = "fulfilled" =>
               promises[q].value = Loaded(ConcatReadable(promises[q].series, promises[q].read))

C5_Witness ==
    \E q \in 1..Len(promises) :
        /\ promises[q].phase = "fulfilled"
        /\ \E s \in ShardIds : ~promises[q].read[s].ok
        /\ Len(promises[q].value.recs) > 0
        /\ promises[q].series[1] # 1

\* ---------------------------------------------------- claims: DataSplitter
SplitCompleted ==
    /\ splitter.pc = "done"
    /\ \A k \in 1..Len(splitter.out) : splitter.out[k] = "ok"

\* the number of places a record has in a series file
PlacesIn(key, product) ==
    Cardinality({n \in 1..Len(seriesFiles[key].recs) :
                    seriesFiles[key].recs[n] = product})

RECURSIVE RecordsWritten(_)
RecordsWritten(keys) ==
    IF keys = {} THEN 0
    ELSE LET k == CHOOSE x \in keys : TRUE
         IN Len(seriesFiles[k].recs) + RecordsWritten(keys \ {k})

ShardsHolding(product) ==
    {k \in DOMAIN seriesFiles : PlacesIn(k, product) > 0}

\* C20: when split() has returned with every series file written, each record
\* of products.json is in exactly one series file, once, and that file is the
\* one named by getSeriesKey of its series; the files hold no other record;
\* two records share a file exactly when their series have the same key; and
\* every file is in ascending release-date order.
C20_SplitPartitions ==
    SplitCompleted =>
        /\ \A i \in 1..Len(productsData) :
              /\ ShardsHolding(productsData[i]) = {getSeriesKey(productsData[i].series)}
              /\ PlacesIn(getSeriesKey(productsData[i].series), productsData[i]) = 1
        /\ RecordsWritten(DOMAIN seriesFiles) = Len(productsData)
        /\ \A i, j \in 1..Len(productsData) :
              (ShardsHolding(productsData[i]) = ShardsHolding(productsData[j]))
              <=> (getSeriesKey(productsData[i].series)
                     = getSeriesKey(productsData[j].series))
        /\ \A k \in DOMAIN seriesFiles :
              \A n \in 1..(Len(seriesFiles[k].recs) - 1) :
                 getTime(seriesFiles[k].recs[n].releaseDate)
                    <= getTime(seriesFiles[k].recs[n + 1].releaseDate)

\* two series files; one holds two records of different series labels, in
\* the reverse of their order in products.json
C20_Witness ==
    /\ SplitCompleted
    /\ Cardinality(DOMAIN seriesFiles) = 2
    /\ Len(productsData) = 3
    /\ \E k \in DOMAIN seriesFiles :
          /\ Len(seriesFiles[k].recs) = 2
          /\ seriesFiles[k].recs[1] = productsData[2]
          /\ seriesFiles[k].recs[2] = productsData[1]
          /\ productsData[1].series # productsData[2].series
          /\ getTime(productsData[2].releaseDate) < getTime(productsData[1].releaseDate)

\* the sum of the productCount entries of a manifest's series list
RECURSIVE SumProductCounts(_)
SumProductCounts(series) ==
    IF series = <<>> THEN 0
    ELSE series[1].productCount + SumProductCounts(Tail(series))

\* C21: once split() has returned and written _index.json, every series the
\* index lists has its file in the products directory with exactly
\* productCount records, totalSeries is the number of listed series and
\* totalProducts the sum of the listed counts, also when the write of a
\* series file failed.
C21_ManifestDescribesStore ==
    (splitter.pc = "done" /\ seriesIndex.present) =>
        /\ \A i \in 1..Len(seriesIndex.series) :
              /\ seriesIndex.series[i].key \in DOMAIN seriesFiles
              /\ Len(seriesFiles[seriesIndex.series[i].key].recs)
                    = seriesIndex.series[i].productCount
        /\ seriesIndex.totalSeries = Len(seriesIndex.series)
        /\ seriesIndex.totalProducts = SumProductCounts(seriesIndex.series)


\* C22: preview() writes nothing (products.json, the series files,
\* _index.json and the backup directory are as they were) and the file names
\* and record counts it prints are those of the files a split() of the same
\* instance then writes.
C22_PreviewIsDryRun ==
    /\ [][(~splitter.report.made /\ splitter'.report.made)
            => UNCHANGED <<productsData, seriesFiles, seriesIndex, sourceBackups>>]_vars
    /\ []((splitter.report.made /\ SplitCompleted) =>
            /\ Len(splitter.report.lines) = Cardinality(DOMAIN seriesFiles)
            /\ {<<splitter.report.lines[i].fileName, splitter.report.lines[i].count>> :
                   i \in 1..Len(splitter.report.lines)}
                 = {<<k \o JsonSuffix, Len(seriesFiles[k].recs)>> : k \in DOMAIN seriesFiles})

\* a preview of two series files of different sizes, followed by the split
C22_Witness ==
    /\ splitter.report.made
    /\ SplitCompleted
    /\ Len(splitter.report.lines) = 2
    /\ splitter.report.lines[1].count = 2
    /\ splitter.report.lines[2].count = 1
    /\ splitter.seriesGroups[1].key \o JsonSuffix = splitter.report.lines[2].fileName


\* ------------------------------------------------- claims: identifiers
\* the identifiers of the records of all readable product files, file by file
RECURSIVE StoreIds(_, _)
StoreIds(store, s) ==
    IF s > NumShards THEN <<>>
    ELSE (IF store[s].ok
          THEN [i \in 1..Len(store[s].recs) |-> GetField(store[s].recs[i], "id")]
          ELSE <<>>)
         \o StoreIds(store, s + 1)

\* C23: whatever field names a mutation operation is given, each record of
\* each product file has the id it had when the operation began, and no id
\* occurs twice in the store.
C23_IdentifiersPreserved ==
    \A p \in FMProcs :
        hist[p] # <<>> =>
            /\ StoreIds(files, 1) = StoreIds(hist[p][1].pre, 1)
            /\ \A i, j \in 1..Len(StoreIds(files, 1)) :
                  StoreIds(files, 1)[i] = StoreIds(files, 1)[j] => i = j


\* C24: the backup directory of every mutation operation, finished ones
\* included, holds the copy of every product file as it was when that
\* operation began, at every later step of that operation and of any later
\* operation.
C24_SnapshotsNeverModified ==
    \A p \in FMProcs : \A n \in 1..Len(hist[p]) :
        hist[p][n].snap = "ok" => BackupHoldsPre(hist[p][n])


\* ------------------------------------------------ claims: request checking
\* a decimal number, with or without a sign
IsDecimal(str) ==
    LET digits == IF str # <<>> /\ str[1] = "-" THEN Tail(str) ELSE str
    IN digits # <<>> /\ \A i \in 1..Len(digits) : digits[i] \in Digits

IsPositiveDecimal(str) ==
    /\ IsDecimal(str)
    /\ str[1] # "-"
    /\ \E i \in 1..Len(str) : str[i] # "0"

\* a parameter that is given (an empty value counts as not given) and is not
\* what the contract allows
HasValue(param) == ~param.null /\ param.str # <<>>

Malformed(query) ==
    \/ HasValue(query.page) /\ ~IsPositiveDecimal(query.page.str)
    \/ HasValue(query.limit) /\ ~IsPositiveDecimal(query.limit.str)
    \/ HasValue(query.minPrice) /\ ~IsDecimal(query.minPrice.str)
    \/ HasValue(query.maxPrice) /\ ~IsDecimal(query.maxPrice.str)
    \/ ~query.sortBy.null
          /\ query.sortBy.str \notin {"name", "price", "rarity", "release_date"}
    \/ ~query.sortOrder.null /\ query.sortOrder.str \notin {"asc", "desc"}

\* C25: a products list request with a malformed parameter (unknown sortBy
\* or sortOrder, non-numeric or non-positive page or limit, non-numeric
\* minPrice or maxPrice) is answered with status 400.
C25_MalformedRejected ==
    (request.via = "route" /\ Malformed(request.query)) => response.status = 400


\* C26: no call of getProducts, whatever its sort key and direction, changes
\* productsData: the collection has the same records in the same order after
\* the call as before it.
C26_CollectionNeverChanged == [][productsData' = productsData]_vars

\* an unfiltered call that returned the records in another order than
\* productsData has them
C26_Witness ==
    /\ request.via = "engine"
    /\ request.params.rarity = <<>>
    /\ request.params.sortBy = "price"
    /\ request.params.sortOrder = "desc"
    /\ Len(productsData) = 3
    /\ Len(response.data.products) = 3
    /\ response.data.products # productsData


\* C27: in every product file a mutation operation has rewritten, the file
\* has as many records as it had when read and record i is the transform of
\* the record that stood at place i.
C27_CountAndOrderKept ==
    \A p \in FMProcs :
        hist[p] # <<>> =>
            LET h == Last(hist[p]) IN
            \A s \in 1..Len(h.out) :
                h.out[s] = "ok" =>
                    /\ Len(files[s].recs) = Len(h.pre[s].recs)
                    /\ \A i \in 1..Len(h.pre[s].recs) :
                          files[s].recs[i]
                             = StringifyRecord(TransformRecord(h.op, h.pre[s].recs[i]))

\* a rewritten file of two records, both changed, that differ from one
\* another
C27_Witness ==
    \E p \in FMProcs :
        /\ hist[p] # <<>>
        /\ Last(hist[p]).out # <<>>
        /\ Last(hist[p]).out[1] = "ok"
        /\ Len(files[1].recs) = 2
        /\ files[1].recs[1] # Last(hist[p]).pre[1].recs[1]
        /\ files[1].recs[2] # Last(hist[p]).pre[1].recs[2]
        /\ files[1].recs[1] # files[1].recs[2]
        /\ Len(files[1].recs[1]) # Len(files[1].recs[2])


\* C28: nothing serializes two runs against the same shard store. While one
\* operation is between two shards, a second process that has an operation
\* to run can start it, and one that is running can process its next file:
\* no step of one process waits for the other. (C28_Witness is the
\* interleaving this allows: the second operation started on a store in
\* which one shard carried the first operation's change and another shard,
\* which that operation changes, did not yet.)
C28_NothingSerializes ==
    \A p \in TwoProcs : \A q \in TwoProcs \ {p} :
        fm[p].pc = "files" =>
            /\ (fm[q].pc = "idle" /\ todo[q] # <<>>) => ENABLED BeginOp(q)
            /\ fm[q].pc = "files" => ENABLED ProcessFile(q)

C28_Witness ==
    \E p \in TwoProcs : \E q \in TwoProcs \ {p} :
        /\ hist[p] # <<>>
        /\ hist[q] # <<>>
        /\ Len(hist[q][1].out) = NumShards
        /\ \E s \in ShardIds : \E t \in ShardIds :
              /\ hist[p][1].pre[s].ok
              /\ hist[p][1].pre[t].ok
              /\ hist[q][1].pre[s] = UpdatedFile(hist[p][1].op, hist[p][1].pre[s])
              /\ hist[q][1].pre[s] # hist[p][1].pre[s]
              /\ hist[q][1].pre[t] = hist[p][1].pre[t]
              /\ UpdatedFile(hist[p][1].op, hist[p][1].pre[t]) # hist[p][1].pre[t]


\* C29: single-flight holds across invalidation: at any moment at most one
\* performLoad started since the most recent resetCache() is in flight
\* (the completion of a load started before a reset never clears the
\* in-flight marker of a load started after it).
LoadsInFlightSinceReset == {q \in Unsettled : promises[q].epoch = resets}

C29_SingleFlightAcrossReset == Cardinality(LoadsInFlightSinceReset) <= 1


\* C30: when performLoad fails because the manifest cannot be loaded, the
\* step that rejects its promise (which is what every caller waiting on it
\* receives) clears the in-flight marker and leaves the cache as it was; the
\* failed load is never the source of the cache, and no loadAllProducts()
\* call is ever handed a load that had already settled: a call made after
\* the failure starts a new read (or waits for one still in flight), which
\* succeeds once the manifest can be loaded.
C30_FailedLoadClearsMarker ==
    /\ [][\A q \in 1..Len(promises) :
            (promises[q].phase # "rejected" /\ promises'[q].phase = "rejected") =>
                /\ loadPromise' = 0
                /\ allProducts' = allProducts
                /\ cachedBy' = cachedBy]_vars
    /\ [](\A q \in 1..Len(promises) :
            promises[q].phase = "rejected" =>
                /\ cachedBy # q
                /\ promises[q].value = NullProducts
                /\ \A j \in 1..Len(calls) :
                      (calls[j].prom = q /\ calls[j].kind = "joined") =>
                          q \in calls[j].inflight)

C30_Witness ==
    \E q \in 1..Len(promises) : \E i \in 1..Len(calls) : \E j \in 1..Len(calls) :
        /\ promises[q].phase = "rejected"
        /\ calls[i].kind = "joined"
        /\ calls[i].prom = q
        /\ i < j
        /\ calls[j].epoch = promises[q].epoch
        /\ calls[j].kind = "owner"
        /\ calls[j].prom > q
        /\ q \notin calls[j].inflight
        /\ promises[calls[j].prom].phase = "fulfilled"
        /\ allProducts = promises[calls[j].prom].value

=============================================================================
